---- MODULE Spec2Model ----
(***************************************************************************)
(* Battery dispatch option resolution (HybridDispatchOptions.__init__) and *)
(* the rolling-horizon scheduler that consumes the resolved options.       *)
(***************************************************************************)
EXTENDS Integers, Sequences, FiniteSets, TLC

VARIABLES dispatch_options, pc, idx, self, err, config,
          sched, clock, window, committed, soc, lifecycle, output,
          csp_pc, csp_config, site, ssc, year_weather_df, last_call, csp_err

vars == <<dispatch_options, pc, idx, self, err, config,
          sched, clock, window, committed, soc, lifecycle, output,
          csp_pc, csp_config, site, ssc, year_weather_df, last_call, csp_err>>

cspVars == <<csp_pc, csp_config, site, ssc, year_weather_df, last_call, csp_err>>

resolverVars == <<dispatch_options, pc, idx, self, err, config>>

schedVars == <<sched, clock, window, committed, soc, lifecycle, output>>

(***************************************************************************)
(* Python values.  Every value is a record of one shape: its type() tag t, *)
(* and the payload in s (str, class name), n (int, bool as 0/1) or  *)
(* d (dict: a set of <<key, value>> pairs).                                *)
(***************************************************************************)
StrV(x) == [t |-> "str", s |-> x, n |-> 0, d |-> {}]

IntV(x) == [t |-> "int", s |-> "", n |-> x, d |-> {}]

BoolV(b) == [t |-> "bool", s |-> "", n |-> IF b THEN 1 ELSE 0, d |-> {}]

DictV(pairs) == [t |-> "dict", s |-> "", n |-> 0, d |-> pairs]

ClassV(name) == [t |-> "type", s |-> name, n |-> 0, d |-> {}]

TypeOf(v) == v.t

\* a dict's pairs as a function, and back
DictToFcn(pairs) ==
    [k \in {p[1] : p \in pairs} |-> (CHOOSE p \in pairs : p[1] = k)[2]]

FcnToDict(f) == {<<k, f[k]>> : k \in DOMAIN f}

\* the empty mapping
EmptyFcn == [k \in {} |-> IntV(0)]

(***************************************************************************)
(* Strings as character sequences, for the substring test of line 75.      *)
(***************************************************************************)
Chars(x) ==
    CASE x = "simple" -> <<"s","i","m","p","l","e">>
      [] x = "heuristic" -> <<"h","e","u","r","i","s","t","i","c">>
      [] x = "one_cycle_heuristic" ->
            <<"o","n","e","_","c","y","c","l","e","_",
              "h","e","u","r","i","s","t","i","c">>
      [] x = "non_convex_LV" ->
            <<"n","o","n","_","c","o","n","v","e","x","_","L","V">>
      [] x = "convex_LV" -> <<"c","o","n","v","e","x","_","L","V">>
      [] x = "bogus" -> <<"b","o","g","u","s">>
      [] x = "glpk" -> <<"g","l","p","k">>
      [] x = "cbc" -> <<"c","b","c">>
      [] x = "gurobi" -> <<"g","u","r","o","b","i">>
      [] OTHER -> <<>>

\* Python's  sub in str
IsSubstring(sub, str) ==
    \E i \in 0..(Len(Chars(str)) - Len(Chars(sub))) :
        SubSeq(Chars(str), i + 1, i + Len(Chars(sub))) = Chars(sub)

(***************************************************************************)
(* The object under construction: self is the instance __dict__.           *)
(***************************************************************************)
NoErr == [type |-> "", msg |-> "", arg |-> ""]

\* an exception: its class, its message and the name the message is formatted with
Raise(type, msg, arg) == [type |-> type, msg |-> msg, arg |-> arg]

\* lines 40-55: the default option values
Defaults ==
    [k \in {"solver", "cbc_timeout", "battery_dispatch",
            "include_lifecycle_count", "grid_charging",
            "n_look_ahead_periods", "n_roll_periods", "log_name",
            "is_test_start_year", "is_test_end_year", "use_clustering",
            "n_clusters", "clustering_weights", "clustering_divisions"} |->
        CASE k = "solver" -> StrV("glpk")
          [] k = "cbc_timeout" -> IntV(10)
          [] k = "battery_dispatch" -> StrV("simple")
          [] k = "include_lifecycle_count" -> BoolV(TRUE)
          [] k = "grid_charging" -> BoolV(TRUE)
          [] k = "n_look_ahead_periods" -> IntV(48)
          [] k = "n_roll_periods" -> IntV(24)
          [] k = "log_name" -> StrV("")
          [] k = "is_test_start_year" -> BoolV(FALSE)
          [] k = "is_test_end_year" -> BoolV(FALSE)
          [] k = "use_clustering" -> BoolV(FALSE)
          [] k = "n_clusters" -> IntV(30)
          [] k = "clustering_weights" -> DictV({})
          [] k = "clustering_divisions" -> DictV({})]

\* the option names the docstring documents (lines 21-38)
OptionNames == DOMAIN Defaults

\* attributes every instance has through its class: the class docstring
\* (lines 9-11) and the instance dictionary itself
ClassAttrs == {"__doc__", "__dict__"}

\* the class docstring of lines 9-11: a str of white space
ClassDoc == StrV("\n\n    ")

\* hasattr(self, key): instance attributes and class attributes alike
HasAttr(s, key) == key \in DOMAIN s \/ key \in ClassAttrs

\* getattr(self, key)
GetAttr(s, key) ==
    IF key = "__dict__" THEN DictV(FcnToDict(s))
    ELSE IF key \in DOMAIN s THEN s[key]
    ELSE ClassDoc

\* setattr(self, key, value): assigning __dict__ replaces every attribute
SetAttr(s, key, value) ==
    IF key = "__dict__" THEN DictToFcn(value.d)
    ELSE [k \in DOMAIN s \cup {key} |-> IF k = key THEN value ELSE s[k]]

\* lines 59-65: one pass of the loop body; the result is the new self and
\* the exception raised, if any
LoopBody(s, key, value) ==
    IF HasAttr(s, key)
    THEN IF TypeOf(GetAttr(s, key)) = TypeOf(value)
         THEN [self |-> SetAttr(s, key, value), err |-> NoErr]
         ELSE [self |-> s, err |-> Raise("ValueError", "is the wrong data type", key)]
    ELSE [self |-> s, err |-> Raise("NameError", "is not an attribute", key)]

\* (mutation) two entries of the table bind the same class
BatteryDispatchModelOptions_Duplicate ==
    {<<"one_cycle_heuristic", ClassV("OneCycleBatteryDispatchHeuristic")>>,
     <<"heuristic", ClassV("SimpleBatteryDispatchHeuristic")>>,
     <<"simple", ClassV("SimpleBatteryDispatch")>>,
     <<"non_convex_LV", ClassV("ConvexLinearVoltageBatteryDispatch")>>,
     <<"convex_LV", ClassV("ConvexLinearVoltageBatteryDispatch")>>}

\* lines 67-72: the lookup table of dispatch model classes
BatteryDispatchModelOptions ==
    {<<"one_cycle_heuristic", ClassV("OneCycleBatteryDispatchHeuristic")>>,
     <<"heuristic", ClassV("SimpleBatteryDispatchHeuristic")>>,
     <<"simple", ClassV("SimpleBatteryDispatch")>>,
     <<"non_convex_LV", ClassV("NonConvexLinearVoltageBatteryDispatch")>>,
     <<"convex_LV", ClassV("ConvexLinearVoltageBatteryDispatch")>>}

\* key in dict, for a dict of str keys
InDict(v, pairs) == TypeOf(v) = "str" /\ \E p \in pairs : p[1] = v.s

\* (mutation) the override sets the roll length and forgets the look-ahead
HeuristicOverride_RollOnly(s) ==
    IF IsSubstring("heuristic", s["battery_dispatch"].s)
    THEN SetAttr(s, "n_roll_periods", IntV(24))
    ELSE s

\* lines 75-79: the one-day override of the heuristic variants
HeuristicOverride(s) ==
    IF IsSubstring("heuristic", s["battery_dispatch"].s)
    THEN LET s1 == SetAttr(s, "n_roll_periods", IntV(24))
         IN  SetAttr(s1, "n_look_ahead_periods", s1["n_roll_periods"])
    ELSE s

\* (mutation) an unknown variant is let through instead of raising
BindDispatchClass_NoRaise(s) ==
    LET s1 == SetAttr(s, "_battery_dispatch_model_options",
                      DictV(BatteryDispatchModelOptions))
    IN  IF "battery_dispatch" \notin DOMAIN s1
        THEN [self |-> s1,
              err |-> Raise("AttributeError", "has no attribute", "battery_dispatch")]
        ELSE IF InDict(s1["battery_dispatch"], BatteryDispatchModelOptions)
        THEN [self |-> HeuristicOverride(
                          SetAttr(s1, "battery_dispatch_class",
                                  DictToFcn(BatteryDispatchModelOptions)[
                                      s1["battery_dispatch"].s])),
              err |-> NoErr]
        ELSE [self |-> s1, err |-> NoErr]

\* lines 67-81: bind the dispatch class, or raise
BindDispatchClass(s) ==
    LET s1 == SetAttr(s, "_battery_dispatch_model_options",
                      DictV(BatteryDispatchModelOptions))
    IN  IF "battery_dispatch" \notin DOMAIN s1
        THEN [self |-> s1,
              err |-> Raise("AttributeError", "has no attribute", "battery_dispatch")]
        ELSE IF TypeOf(s1["battery_dispatch"]) = "dict"   \* a dict is no dict key
        THEN [self |-> s1,
              err |-> Raise("TypeError", "unhashable type", "battery_dispatch")]
        ELSE IF InDict(s1["battery_dispatch"], BatteryDispatchModelOptions)
        THEN [self |-> HeuristicOverride(
                          SetAttr(s1, "battery_dispatch_class",
                                  DictToFcn(BatteryDispatchModelOptions)[
                                      s1["battery_dispatch"].s])),
              err |-> NoErr]
        ELSE [self |-> s1,
              err |-> Raise("ValueError", "is not currently a battery dispatch class",
                            s1["battery_dispatch"].s)]


\* lines 58-65: the whole loop over the items, stopping at the first raise
RECURSIVE RunLoop(_, _, _)
RunLoop(s, items, i) ==
    IF i > Len(items)
    THEN [self |-> s, err |-> NoErr]
    ELSE LET r == LoopBody(s, items[i].key, items[i].value)
         IN  IF r.err = NoErr THEN RunLoop(r.self, items, i + 1) ELSE r

\* lines 40-81: the constructor from entry to return or raise
Resolve(options) ==
    LET looped == IF options.none
                  THEN [self |-> Defaults, err |-> NoErr]
                  ELSE RunLoop(Defaults, options.items, 1)
    IN  IF looped.err = NoErr THEN BindDispatchClass(looped.self) ELSE looped

(***************************************************************************)
(* The option mappings tried: for each key, values of the documented type  *)
(* and values of another type.                                             *)
(***************************************************************************)
MaxOptions == 3

InjectedDict == {<<"solver", IntV(7)>>, <<"battery_dispatch", StrV("simple")>>}

Candidates(key) ==
    CASE key = "solver" -> {StrV("cbc"), StrV("gurobi"), IntV(24)}
      [] key = "battery_dispatch" ->
            {StrV("simple"), StrV("one_cycle_heuristic"), StrV("heuristic"),
             StrV("non_convex_LV"), StrV("convex_LV"), StrV("bogus"), BoolV(TRUE)}
      [] key = "n_look_ahead_periods" -> {IntV(12), IntV(48), BoolV(TRUE)}
      [] key = "n_roll_periods" -> {IntV(0), IntV(48), StrV("24")}
      [] key = "grid_charging" -> {BoolV(FALSE), IntV(0)}
      [] key = "n_clusters" -> {IntV(12), BoolV(TRUE)}
      [] key = "clustering_weights" -> {DictV({<<"ghi", IntV(12)>>}), StrV("bogus")}
      [] key = "not_a_real_option" -> {IntV(24)}
      [] key = "__doc__" -> {StrV("bogus"), IntV(24)}
      [] key = "__dict__" -> {DictV({}), DictV(InjectedDict)}

InputKeys ==
    {"solver", "battery_dispatch", "n_look_ahead_periods", "n_roll_periods",
     "grid_charging", "n_clusters", "clustering_weights", "not_a_real_option",
     "__doc__", "__dict__"}

Items == UNION {{[key |-> k, value |-> v] : v \in Candidates(k)} : k \in InputKeys}

\* a dict holds each key once; its iteration order is its insertion order
DistinctKeys(items) ==
    \A i, j \in 1..Len(items) : i # j => items[i].key # items[j].key

ItemSeqs ==
    {items \in UNION {[1..n -> Items] : n \in 0..MaxOptions} : DistinctKeys(items)}

OptionMappings ==
    {[none |-> TRUE, items |-> <<>>]} \cup
    {[none |-> FALSE, items |-> items] : items \in ItemSeqs}

NoConfig == [made |-> FALSE, attrs |-> EmptyFcn]

(***************************************************************************)
(* The CSP plant before any plant is constructed.                          *)
(***************************************************************************)
\* no weather table: a file of a year and of a step in seconds
NoFile == [year |-> 0, step |-> 0]

\* the engine's solar_resource_data when nothing was set
NoData == [kind |-> "unset", df |-> NoFile, cols |-> EmptyFcn]

NoEngine == [made |-> FALSE, tech_name |-> "", time_steps_per_hour |-> 0,
             solar_resource_data |-> NoData]

NoDatetime == [year |-> 0, month |-> 1, day |-> 1, hour |-> 0, minute |-> 0]

NoCall == [op |-> "", df |-> NoFile, start |-> NoDatetime, end |-> NoDatetime]

CspIdle ==
    /\ csp_pc = "NotStarted" /\ csp_config = {} /\ site = NoFile
    /\ ssc = NoEngine /\ year_weather_df = NoFile /\ last_call = NoCall
    /\ csp_err = NoErr

(***************************************************************************)
(* HybridDispatchOptions.__init__, step by step.                           *)
(***************************************************************************)
SchedIdle ==
    /\ sched = "NotStarted" /\ clock = 0 /\ window = [start |-> 0, len |-> 0]
    /\ committed = 0 /\ soc = 0 /\ lifecycle = 0 /\ output = <<>>

Init ==
    /\ dispatch_options \in OptionMappings
    /\ pc = "start"
    /\ idx = 1
    /\ self = EmptyFcn
    /\ err = NoErr
    /\ config = NoConfig
    /\ SchedIdle
    /\ CspIdle

\* lines 40-57
SetDefaults ==
    /\ pc = "start"
    /\ self' = Defaults
    /\ pc' = IF dispatch_options.none THEN "bind" ELSE "loop"
    /\ UNCHANGED <<dispatch_options, idx, err, config, schedVars, cspVars>>

\* lines 58-65: the loop body on the next item
LoopStep ==
    /\ pc = "loop"
    /\ idx <= Len(dispatch_options.items)
    /\ LET item == dispatch_options.items[idx]
           r == LoopBody(self, item.key, item.value)
       IN  /\ self' = r.self
           /\ err' = r.err
           /\ pc' = IF r.err = NoErr THEN "loop" ELSE "raised"
    /\ idx' = idx + 1
    /\ UNCHANGED <<dispatch_options, config, schedVars, cspVars>>

\* line 58: the items are exhausted
LoopEnd ==
    /\ pc = "loop"
    /\ idx > Len(dispatch_options.items)
    /\ pc' = "bind"
    /\ UNCHANGED <<dispatch_options, idx, self, err, config, schedVars, cspVars>>

\* lines 67-81, and the return of the constructed object
Bind ==
    /\ pc = "bind"
    /\ LET r == BindDispatchClass(self)
       IN  /\ self' = r.self
           /\ err' = r.err
           /\ pc' = IF r.err = NoErr THEN "done" ELSE "raised"
           /\ config' = IF r.err = NoErr
                        THEN [made |-> TRUE, attrs |-> r.self]
                        ELSE config
    /\ UNCHANGED <<dispatch_options, idx, schedVars, cspVars>>

Next == SetDefaults \/ LoopStep \/ LoopEnd \/ Bind

Spec == Init /\ [][Next]_vars

(***************************************************************************)
(* The rolling-horizon scheduler run with a resolved config.  Periods are  *)
(* hours; the battery ledger is kept in whole units of charge.             *)
(***************************************************************************)
\* days of the simulated year (stands for the 365 of a real year)
YearDays == 7

\* periods of one day: the one-day period count of the heuristic override
PeriodsPerDay == 24

\* days solved when a test flag is set
TestDays == 5

\* state-of-charge limits of the ledger, in units
MinSoc == 1

MaxSoc == 3

YearPeriods == YearDays * PeriodsPerDay

Min(a, b) == IF a <= b THEN a ELSE b

Max(a, b) == IF a >= b THEN a ELSE b

\* the mappings the scheduler is run with
SchedMappings ==
    {[none |-> TRUE, items |-> <<>>],
     [none |-> FALSE, items |-> <<[key |-> "is_test_start_year", value |-> BoolV(TRUE)]>>],
     [none |-> FALSE, items |-> <<[key |-> "is_test_end_year", value |-> BoolV(TRUE)]>>],
     [none |-> FALSE, items |->
        <<[key |-> "battery_dispatch", value |-> StrV("one_cycle_heuristic")],
          [key |-> "n_roll_periods", value |-> IntV(48)],
          [key |-> "n_look_ahead_periods", value |-> IntV(48)],
          [key |-> "is_test_start_year", value |-> BoolV(TRUE)]>>],
     [none |-> FALSE, items |-> <<[key |-> "n_roll_periods", value |-> IntV(48)]>>],
     [none |-> FALSE, items |->
        <<[key |-> "n_look_ahead_periods", value |-> IntV(12)],
          [key |-> "is_test_start_year", value |-> BoolV(TRUE)]>>],
     [none |-> FALSE, items |->
        <<[key |-> "n_roll_periods", value |-> IntV(0)],
          [key |-> "is_test_start_year", value |-> BoolV(TRUE)]>>],
     [none |-> FALSE, items |-> <<[key |-> "battery_dispatch", value |-> StrV("bogus")]>>]}

Roll == config.attrs["n_roll_periods"].n

LookAhead == config.attrs["n_look_ahead_periods"].n

TestFlag ==
    config.attrs["is_test_start_year"].n = 1 \/ config.attrs["is_test_end_year"].n = 1

\* the simulated span: the full year, or the five test days at its start or end
SimStart ==
    IF config.attrs["is_test_start_year"].n = 1 THEN 0
    ELSE IF config.attrs["is_test_end_year"].n = 1
    THEN YearPeriods - TestDays * PeriodsPerDay
    ELSE 0

SimEnd ==
    IF config.attrs["is_test_start_year"].n = 1 THEN TestDays * PeriodsPerDay
    ELSE YearPeriods

\* a window anchored at time t: look-ahead periods of the forecast series,
\* cut at the end of the series
BuildWindow(t) == [start |-> t, len |-> Max(0, Min(LookAhead, YearPeriods - t))]

\* the leading periods of a solution that are committed
PrefixLen(w) == Max(0, Min(Roll, w.len))

\* (mutation) a decision is bounded by rated power only, not by headroom
Decisions_NoHeadroom(level) == {-1, 0, 1}

\* the per-period decisions a formulation may return for a battery at this
\* level: one unit of charge (+1) or discharge (-1) at most, within the
\* state-of-charge headroom
Decisions(level) == {p \in {-1, 0, 1} : level + p >= MinSoc /\ level + p <= MaxSoc}

\* the throughput-based lifecycle increment of a decision
LifecycleIncrement(p) == IF p < 0 THEN -p ELSE 0

SchedInit ==
    /\ dispatch_options \in SchedMappings
    /\ LET r == Resolve(dispatch_options)
       IN  /\ self = r.self
           /\ err = r.err
           /\ pc = IF r.err = NoErr THEN "done" ELSE "raised"
           /\ config = IF r.err = NoErr THEN [made |-> TRUE, attrs |-> r.self]
                       ELSE NoConfig
    /\ idx = Len(dispatch_options.items) + 1
    /\ sched = "Initializing"
    /\ clock = 0
    /\ window = [start |-> 0, len |-> 0]
    /\ committed = 0
    /\ soc = MinSoc
    /\ lifecycle = 0
    /\ output = <<>>
    /\ CspIdle

\* Initializing: the ledger is constructed and the clock set to the start
Initialize ==
    /\ sched = "Initializing"
    /\ config.made
    /\ sched' = "WindowReady"
    /\ clock' = SimStart
    /\ soc' = MinSoc
    /\ lifecycle' = 0
    /\ UNCHANGED <<resolverVars, cspVars, window, committed, output>>

\* WindowReady -> Solving
StartSolve ==
    /\ sched = "WindowReady"
    /\ sched' = "Solving"
    /\ window' = BuildWindow(clock)
    /\ UNCHANGED <<resolverVars, cspVars, clock, committed, soc, lifecycle, output>>

\* Solving -> Committing: the solve succeeded
SolveOk ==
    /\ sched = "Solving"
    /\ sched' = "Committing"
    /\ committed' = 0
    /\ UNCHANGED <<resolverVars, cspVars, clock, window, soc, lifecycle, output>>

\* Solving -> Aborted: the solve was infeasible or timed out and the run aborts
SolveFail ==
    /\ sched = "Solving"
    /\ sched' = "Aborted"
    /\ UNCHANGED <<resolverVars, cspVars, clock, window, committed, soc, lifecycle, output>>

\* Committing: the next period of the prefix is written to the ledger
CommitPeriod ==
    /\ sched = "Committing"
    /\ committed < PrefixLen(window)
    /\ \E p \in Decisions(soc) :
          /\ soc' = soc + p
          /\ lifecycle' = lifecycle + LifecycleIncrement(p)
    /\ output' = Append(output, window.start + committed)
    /\ committed' = committed + 1
    /\ UNCHANGED <<resolverVars, cspVars, sched, clock, window>>

\* Committing -> Advancing: the clock moves on by the roll-forward length
Advance ==
    /\ sched = "Committing"
    /\ committed >= PrefixLen(window)
    /\ sched' = "Advancing"
    /\ clock' = clock + Roll
    /\ UNCHANGED <<resolverVars, cspVars, window, committed, soc, lifecycle, output>>

\* Advancing -> WindowReady: the clock has not reached the simulation end
Loop ==
    /\ sched = "Advancing"
    /\ clock < SimEnd
    /\ sched' = "WindowReady"
    /\ UNCHANGED <<resolverVars, cspVars, clock, window, committed, soc, lifecycle, output>>

\* Advancing -> Done
Finish ==
    /\ sched = "Advancing"
    /\ clock >= SimEnd
    /\ sched' = "Done"
    /\ UNCHANGED <<resolverVars, cspVars, clock, window, committed, soc, lifecycle, output>>

SchedNext ==
    \/ Initialize \/ StartSolve \/ SolveOk \/ SolveFail
    \/ CommitPeriod \/ Advance \/ Loop \/ Finish

SchedSpec == SchedInit /\ [][SchedNext]_vars

\* the scheduler is a sequential loop: it takes its next step whenever it has one
FairSchedSpec == SchedSpec /\ WF_vars(SchedNext)


(***************************************************************************)
(* Properties of the option resolution.                                    *)
(***************************************************************************)
Terminated == pc \in {"done", "raised"}

Supplied == {dispatch_options.items[i] : i \in 1..Len(dispatch_options.items)}

SuppliedKeys == {it.key : it \in Supplied}

\* the mapping names documented options only
RecognizedOnly == SuppliedKeys \subseteq OptionNames

Has(c, k) == k \in DOMAIN c.attrs

HeuristicFamily == {"one_cycle_heuristic", "heuristic"}

KnownVariants ==
    {"simple", "one_cycle_heuristic", "heuristic", "non_convex_LV", "convex_LV"}

\* C1: every accepted mapping of documented options resolves to a config
\* whose look-ahead length is at least its roll-forward length.
C1_LookAheadAtLeastRoll ==
    (config.made /\ RecognizedOnly) =>
        /\ Has(config, "n_look_ahead_periods") /\ Has(config, "n_roll_periods")
        /\ config.attrs["n_look_ahead_periods"].n >= config.attrs["n_roll_periods"].n

\* C2: a config resolved with a heuristic-family variant has roll-forward =
\* look-ahead = 24 whatever the user supplied for them, and a mapping of the
\* variant and integer values for the two fields is accepted.
C2_HeuristicForcesOneDay ==
    /\ (config.made /\ Has(config, "battery_dispatch")
          /\ config.attrs["battery_dispatch"].s \in HeuristicFamily) =>
            /\ config.attrs["n_roll_periods"] = IntV(24)
            /\ config.attrs["n_look_ahead_periods"] = IntV(24)
    /\ (/\ Terminated
        /\ SuppliedKeys \subseteq
              {"battery_dispatch", "n_roll_periods", "n_look_ahead_periods"}
        /\ \A it \in Supplied :
              IF it.key = "battery_dispatch"
              THEN it.value.t = "str" /\ it.value.s \in HeuristicFamily
              ELSE it.value.t = "int") =>
            /\ config.made
            /\ err = NoErr

C2_Witness ==
    /\ config.made
    /\ [key |-> "battery_dispatch", value |-> StrV("one_cycle_heuristic")] \in Supplied
    /\ [key |-> "n_roll_periods", value |-> IntV(48)] \in Supplied
    /\ [key |-> "n_look_ahead_periods", value |-> IntV(48)] \in Supplied
    /\ config.attrs["n_roll_periods"] = IntV(24)

\* C3: a mapping holding a key that is no documented option name never
\* yields a config: construction ends in an error.
C3_UnknownKeyRejected ==
    (Terminated /\ ~RecognizedOnly) => (~config.made /\ err # NoErr)

\* C4: a mapping that gives a documented option a value of another type
\* than the option's declared type never yields a config: construction ends
\* in a configuration error.
C4_TypeMismatchRejected ==
    (Terminated /\ \E it \in Supplied :
                      it.key \in OptionNames /\ it.value.t # Defaults[it.key].t) =>
        (~config.made /\ err.type \in {"ValueError", "NameError"})

\* C5: binding with a battery_dispatch name that is none of the five known
\* variants raises the not-a-dispatch-class error, produces no config and
\* binds no class.
C5_UnknownVariantRaises ==
    [][(/\ pc = "bind"
        /\ "battery_dispatch" \in DOMAIN self
        /\ self["battery_dispatch"].t = "str"
        /\ self["battery_dispatch"].s \notin KnownVariants) =>
            /\ pc' = "raised"
            /\ err' = Raise("ValueError", "is not currently a battery dispatch class",
                            self["battery_dispatch"].s)
            /\ ~config'.made
            /\ "battery_dispatch_class" \notin DOMAIN self']_vars

C5_Witness ==
    /\ pc = "raised"
    /\ err = Raise("ValueError", "is not currently a battery dispatch class", "bogus")
    /\ ~config.made
    /\ "battery_dispatch_class" \notin DOMAIN self

\* the binding the claim lists
C6_Listed(name) ==
    CASE name = "one_cycle_heuristic" -> "OneCycleBatteryDispatchHeuristic"
      [] name = "heuristic" -> "SimpleBatteryDispatchHeuristic"
      [] name = "simple" -> "SimpleBatteryDispatch"
      [] name = "non_convex_LV" -> "NonConvexLinearVoltageBatteryDispatch"
      [] name = "convex_LV" -> "ConvexLinearVoltageBatteryDispatch"
      [] OTHER -> ""

\* C6: after a successful construction battery_dispatch_class is the class
\* listed for the resolved battery_dispatch name, and two configs of
\* different variant names never hold the same class.
C6_ClassBound ==
    config.made =>
        /\ Has(config, "battery_dispatch_class")
        /\ config.attrs["battery_dispatch_class"] =
              ClassV(C6_Listed(config.attrs["battery_dispatch"].s))
        /\ \A p \in config.attrs["_battery_dispatch_model_options"].d :
              (p[2] = config.attrs["battery_dispatch_class"]) =>
                  p[1] = config.attrs["battery_dispatch"].s

C6_Witness ==
    /\ config.made
    /\ config.attrs["battery_dispatch"] = StrV("non_convex_LV")
    /\ config.attrs["battery_dispatch_class"] =
          ClassV("NonConvexLinearVoltageBatteryDispatch")

\* C7: every config resolved from a mapping of documented options has a
\* solver that is 'glpk' or 'cbc'.
C7_SolverInEnumeration ==
    (config.made /\ RecognizedOnly) =>
        /\ Has(config, "solver")
        /\ config.attrs["solver"].t = "str"
        /\ config.attrs["solver"].s \in {"glpk", "cbc"}


(***************************************************************************)
(* Properties of the scheduler.                                            *)
(***************************************************************************)
\* C8: after every committed period the state of charge lies within
\* [MinSoc, MaxSoc], and the lifecycle count never decreases.
C8_SocBoundedLifecycleMonotone ==
    [][/\ (Len(output') > Len(output)) => (soc' >= MinSoc /\ soc' <= MaxSoc)
       /\ lifecycle' >= lifecycle]_vars

C8_Witness ==
    /\ sched = "Done"
    /\ Len(output) = SimEnd - SimStart
    /\ soc = MaxSoc
    /\ lifecycle > 0

\* C9: for every solved window exactly the leading roll-forward-length
\* periods of its solution are committed and the clock then advances by
\* exactly that length; no later period of a solution is committed; the
\* battery ledger is written in the Committing step only.
C9_ExactlyRollPrefixCommitted ==
    [][/\ (sched = "Committing" /\ sched' = "Advancing") =>
            (committed = Roll /\ clock' = clock + Roll)
       /\ (Len(output') > Len(output)) =>
            /\ output' = Append(output, window.start + committed)
            /\ committed < Roll
       /\ (sched # "Initializing" /\ (soc' # soc \/ lifecycle' # lifecycle)) =>
            sched = "Committing"]_vars

\* C10: every scheduler run of a resolved config in which no window solve
\* fails eventually reaches Done.
C10_RunReachesDone == config.made ~> (sched \in {"Done", "Aborted"})

(***************************************************************************)
(* Defaults and the frame of the option resolution.                        *)
(***************************************************************************)
\* the defaults the docstring documents (lines 21-38)
C12_Documented(k) ==
    CASE k = "solver" -> StrV("glpk")
      [] k = "cbc_timeout" -> IntV(10)
      [] k = "battery_dispatch" -> StrV("simple")
      [] k = "grid_charging" -> BoolV(TRUE)
      [] k = "include_lifecycle_count" -> BoolV(TRUE)
      [] k = "n_look_ahead_periods" -> IntV(48)
      [] k = "n_roll_periods" -> IntV(24)
      [] k = "log_name" -> StrV("")
      [] k = "is_test_start_year" -> BoolV(FALSE)
      [] k = "is_test_end_year" -> BoolV(FALSE)
      [] k = "use_clustering" -> BoolV(FALSE)
      [] k = "n_clusters" -> IntV(30)
      [] k = "clustering_weights" -> DictV({})
      [] k = "clustering_divisions" -> DictV({})

NonHeuristic(c) ==
    /\ c.made
    /\ Has(c, "battery_dispatch")
    /\ c.attrs["battery_dispatch"].s \in KnownVariants \ HeuristicFamily

\* C12: an absent or empty mapping resolves to the documented defaults, and
\* a config resolved with a non-heuristic variant holds the default of every
\* option the mapping does not name.
C12_DefaultsKept ==
    /\ (Terminated /\ dispatch_options.items = <<>>) =>
            /\ config.made
            /\ \A k \in OptionNames : Has(config, k) /\ config.attrs[k] = C12_Documented(k)
    /\ NonHeuristic(config) =>
            \A k \in OptionNames \ SuppliedKeys :
                Has(config, k) /\ config.attrs[k] = C12_Documented(k)

\* the value the mapping gives a key, or the default
C15_Expected(k) ==
    IF \E it \in Supplied : it.key = k /\ it.value.t = "int"
    THEN (CHOOSE it \in Supplied : it.key = k).value
    ELSE C12_Documented(k)

\* C15: a config resolved with a non-heuristic variant holds, for each of
\* the two horizon fields, the integer the mapping gives it, or the default
\* when the mapping gives none; the one-day values are forced for the two
\* heuristic variants only.
C15_HorizonUntouched ==
    NonHeuristic(config) =>
        \A k \in {"n_look_ahead_periods", "n_roll_periods"} :
            Has(config, k) /\ config.attrs[k] = C15_Expected(k)

(***************************************************************************)
(* CspPlant: construction and set_weather (csp_source.py).  A weather      *)
(* table is a file of 365 days of rows at a fixed step; a datetime is its  *)
(* calendar fields.                                                        *)
(***************************************************************************)
\* the hours the padded tables cover (lines 85, 213)
HoursPerYear == 8760

YearSeconds == HoursPerYear * 3600

\* days of the non-leap year before each month
DaysBeforeMonth == <<0, 31, 59, 90, 120, 151, 181, 212, 243, 273, 304, 334, 365>>

Datetime(y, mo, d, h, mi) == [year |-> y, month |-> mo, day |-> d, hour |-> h, minute |-> mi]

\* lines 211, 255-259: seconds from the new year, the year replaced by a
\* non-leap one
SecondsSinceNewYear(dt) ==
    ((DaysBeforeMonth[dt.month] + dt.day - 1) * 24 + dt.hour) * 3600 + dt.minute * 60

\* the datetime of a year at a number of seconds from its new year
DatetimeAt(y, secs) ==
    LET doy == secs \div 86400
        mo == CHOOSE m \in 1..12 : DaysBeforeMonth[m] <= doy /\ doy < DaysBeforeMonth[m + 1]
        rest == secs % 86400
    IN  Datetime(y, mo, doy - DaysBeforeMonth[mo] + 1, rest \div 3600, (rest % 3600) \div 60)

\* datetime + timedelta and datetime - timedelta, for a timedelta under a year
DatetimePlus(dt, td) ==
    LET t == SecondsSinceNewYear(dt) + td
    IN  IF t >= YearSeconds THEN DatetimeAt(dt.year + 1, t - YearSeconds)
        ELSE DatetimeAt(dt.year, t)

DatetimeMinus(dt, td) ==
    LET t == SecondsSinceNewYear(dt) - td
    IN  IF t < 0 THEN DatetimeAt(dt.year - 1, t + YearSeconds)
        ELSE DatetimeAt(dt.year, t)

\* a <= b on datetimes
DatetimeLeq(a, b) ==
    \/ a.year < b.year
    \/ a.year = b.year /\ SecondsSinceNewYear(a) <= SecondsSinceNewYear(b)

\* datetime.replace(year=y)
ReplaceYear(dt, y) == [dt EXCEPT !.year = y]

\* the rows of a weather table: row i (from 0) is at i steps from the new year
NRows(df) == YearSeconds \div df.step

RowTime(df, i) == DatetimeAt(df.year, i * df.step)

\* the value a weather table holds in a column at a row
ColValue(df, col, row) ==
    CASE col = "year" -> RowTime(df, row).year
      [] col = "month" -> RowTime(df, row).month
      [] col = "day" -> RowTime(df, row).day
      [] col = "hour" -> RowTime(df, row).hour
      [] col = "minute" -> RowTime(df, row).minute
      [] OTHER -> row + 1

(***************************************************************************)
(* Python lists, kept as runs: [0] * k and a run of rows of the table;     *)
(* + is the concatenation of the runs.                                     *)
(***************************************************************************)
\* [0] * k: the empty list when k <= 0
Zeros(k) == [kind |-> "zeros", first |-> 0, n |-> IF k > 0 THEN k ELSE 0]

Rows(first, n) == [kind |-> "rows", first |-> first, n |-> n]

RECURSIVE ListLen(_)
ListLen(list) == IF list = <<>> THEN 0 ELSE Head(list).n + ListLen(Tail(list))

\* list[j], j from 0
RECURSIVE ElementAt(_, _, _, _)
ElementAt(df, col, list, j) ==
    IF j < Head(list).n
    THEN IF Head(list).kind = "zeros" THEN 0 ELSE ColValue(df, col, Head(list).first + j)
    ELSE ElementAt(df, col, Tail(list), j - Head(list).n)

\* a + b on lists; runs of no element are dropped
NonEmptyRun(run) == run.n > 0

Concat(a, b) == SelectSeq(a \o b, NonEmptyRun)

\* an entry of the solar_resource_data dictionary: a list or a number
ListEntry(list) == [islist |-> TRUE, val |-> 0, runs |-> list]

NumberEntry(v) == [islist |-> FALSE, val |-> v, runs |-> <<>>]

\* the columns that lines 178-189 turn into lists; "dn" stands for every
\* measured column (dn, df, gh, wspd, tdry, pres, tdew), all built alike
ListColumns == {"year", "month", "day", "hour", "minute", "dn"}

\* lines 174-177: the entries that are numbers; "tz" stands for the four
\* of them
NumberColumns == {"tz"}

(***************************************************************************)
(* set_weather (lines 142-226).                                            *)
(***************************************************************************)
\* line 144: int(1 / (weather_timedelta.total_seconds() / 3600))
WeatherTimeStepsPerHour(df) == 3600 \div df.step

\* lines 150-158: the start and the end after the year replacement and
\* the widening of an empty range
SliceStart(df, start) ==
    IF start.year # df.year THEN ReplaceYear(start, df.year) ELSE start

SliceEnd(df, start, end) ==
    LET s == SliceStart(df, start)
        e == IF start.year # df.year THEN ReplaceYear(end, df.year) ELSE end
    IN  IF DatetimeLeq(e, s) THEN DatetimePlus(s, df.step) ELSE e

\* lines 159-160: weather_df[start:(end - weather_timedelta)], both labels
\* included: the first and the last row of the part (last < first: no row)
FirstRow(df, start) ==
    LET secs == SecondsSinceNewYear(SliceStart(df, start))
    IN  (secs + df.step - 1) \div df.step

LastRow(df, start, end) ==
    LET upper == DatetimeMinus(SliceEnd(df, start, end), df.step)
        row == SecondsSinceNewYear(upper) \div df.step
    IN  IF upper.year > df.year THEN NRows(df) - 1
        ELSE IF upper.year < df.year THEN 0 - 1
        ELSE IF row > NRows(df) - 1 THEN NRows(df) - 1 ELSE row

PartLen(df, start, end) ==
    LET n == LastRow(df, start, end) - FirstRow(df, start) + 1
    IN  IF n > 0 THEN n ELSE 0

\* lines 173-189: the dictionary before the padding
UnpaddedTable(df, first, n) ==
    [k \in ListColumns \cup NumberColumns |->
        IF k \in ListColumns THEN ListEntry(Concat(<<Rows(first, n)>>, <<>>))
        ELSE NumberEntry(0)]

\* lines 192-197, 202-207: the datetime of the fields of the lists at j
DatetimeOfRow(df, table, j) ==
    Datetime(ElementAt(df, "year", table["year"].runs, j),
             ElementAt(df, "month", table["month"].runs, j),
             ElementAt(df, "day", table["day"].runs, j),
             ElementAt(df, "hour", table["hour"].runs, j),
             ElementAt(df, "minute", table["minute"].runs, j))

\* lines 198-208: timestep.seconds
PadTimestep(df, table) ==
    IF ListLen(table["dn"].runs) < 2 THEN 3600
    ELSE (SecondsSinceNewYear(DatetimeOfRow(df, table, 1))
            - SecondsSinceNewYear(DatetimeOfRow(df, table, 0))) % 86400

\* line 209
PadStepsPerHour(df, table) == 3600 \div PadTimestep(df, table)

\* lines 211-212
PadOffset(df, table) ==
    SecondsSinceNewYear(DatetimeOfRow(df, table, 0)) \div PadTimestep(df, table)

\* line 213
PadDiff(df, table) ==
    HoursPerYear * PadStepsPerHour(df, table) - ListLen(table["dn"].runs)

\* lines 191-221: what pad_solar_resource_data returns; the return is
\* inside "if diff > 0", and the function returns None otherwise
pad_solar_resource_data(df, table) ==
    LET i0 == PadOffset(df, table)
        diff == PadDiff(df, table)
        front_padding == <<Zeros(i0)>>
        back_padding == <<Zeros(diff - i0)>>
    IN  IF diff > 0
        THEN [kind |-> "table", df |-> df,
              cols |-> [k \in DOMAIN table |->
                          IF table[k].islist
                          THEN ListEntry(Concat(Concat(front_padding, table[k].runs),
                                                back_padding))
                          ELSE table[k]]]
        ELSE [kind |-> "None", df |-> NoFile, cols |-> EmptyFcn]

\* lines 162-224
weather_df_to_ssc_table(df, first, n) ==
    pad_solar_resource_data(df, UnpaddedTable(df, first, n))

\* lines 142-226: the engine and the error after set_weather
SetWeatherResult(engine, df, start, end) ==
    IF WeatherTimeStepsPerHour(df) # engine.time_steps_per_hour
    THEN [ssc |-> engine,
          err |-> Raise("Exception",
                        "Configured time_steps_per_hour is not that of weather file", "")]
    ELSE IF PartLen(df, start, end) = 0
    THEN [ssc |-> engine, err |-> Raise("IndexError", "list index out of range", "")]
    ELSE [ssc |-> [engine EXCEPT !.solar_resource_data =
                        weather_df_to_ssc_table(df, FirstRow(df, start),
                                                PartLen(df, start, end))],
          err |-> NoErr]

SetWeatherCall(df, start, end) ==
    [op |-> "set_weather", df |-> df, start |-> start, end |-> end]

(***************************************************************************)
(* The plant's operations.                                                 *)
(***************************************************************************)
\* line 34
required_keys == {"system_capacity_kw", "solar_multiple", "tes_hours"}

\* line 53
TechNames == {"tcsmolten_salt", "trough_physical"}

\* the weather files of the sites: hourly, half-hourly and 45-minute rows
WeatherFiles == [year : {2013}, step : {3600, 1800, 2700}]

\* the datetimes that callers pass
Datetimes ==
    { Datetime(1900, 1, 1, 0, 0), Datetime(2013, 1, 1, 0, 0), Datetime(2013, 1, 2, 0, 0),
      Datetime(2013, 12, 31, 23, 0), Datetime(2014, 1, 1, 0, 0) }

\* lines 51-56, 84: the engine after initialize_params
NewEngine(tech) ==
    [made |-> TRUE, tech_name |-> tech, time_steps_per_hour |-> 1,
     solar_resource_data |-> NoData]

\* line 62
FluxStart == Datetime(1900, 1, 1, 0, 0)

\* CspPlant.__init__ (lines 24-64).  The flux maps of line 64 leave
\* time_steps_per_hour and solar_resource_data as they were.
CspConstruct ==
    /\ csp_pc = "NotStarted"
    /\ \E cfg \in SUBSET required_keys, tech \in TechNames, file \in WeatherFiles :
        /\ csp_config' = cfg
        /\ site' = file
        /\ IF \A key \in required_keys : key \notin cfg
           THEN /\ csp_err' = Raise("ValueError", "", "")
                /\ csp_pc' = "raised"
                /\ UNCHANGED <<ssc, year_weather_df, last_call>>
           ELSE /\ year_weather_df' = file
                /\ IF tech = "tcsmolten_salt"
                   THEN LET r == SetWeatherResult(NewEngine(tech), file, FluxStart, FluxStart)
                        IN  /\ ssc' = r.ssc
                            /\ csp_err' = r.err
                            /\ last_call' = SetWeatherCall(file, FluxStart, FluxStart)
                            /\ csp_pc' = IF r.err = NoErr THEN "ready" ELSE "raised"
                   ELSE /\ ssc' = NewEngine(tech)
                        /\ csp_err' = NoErr
                        /\ csp_pc' = "ready"
                        /\ UNCHANGED last_call
    /\ UNCHANGED <<resolverVars, schedVars>>

\* CspPlant.set_weather (lines 142-226) on a constructed plant, called as
\* line 63 calls it: with the plant's own weather table
SetWeather ==
    /\ csp_pc = "ready"
    /\ \E start \in Datetimes, end \in Datetimes :
        LET r == SetWeatherResult(ssc, year_weather_df, start, end)
        IN  /\ ssc' = r.ssc
            /\ csp_err' = r.err
            /\ last_call' = SetWeatherCall(year_weather_df, start, end)
    /\ UNCHANGED <<csp_pc, csp_config, site, year_weather_df, resolverVars, schedVars>>

CspInit ==
    /\ dispatch_options = [none |-> TRUE, items |-> <<>>]
    /\ pc = "start" /\ idx = 1 /\ self = EmptyFcn /\ err = NoErr /\ config = NoConfig
    /\ SchedIdle
    /\ CspIdle

CspNext == CspConstruct \/ SetWeather

CspSpec == CspInit /\ [][CspNext]_vars

(***************************************************************************)
(* Properties of the CSP plant.                                            *)
(***************************************************************************)
\* the rows of the weather table are not time_steps_per_hour to the hour
GranularityDiffers(df, time_steps_per_hour) == df.step * time_steps_per_hour # 3600

\* C11: a set_weather call whose weather table has a granularity other
\* than the configured time_steps_per_hour ends in an error and leaves
\* the engine's solar_resource_data as it was before the call.
C11_MismatchIsFatal ==
    [][ (/\ last_call'.op = "set_weather"
         /\ GranularityDiffers(last_call'.df, ssc'.time_steps_per_hour))
        => (/\ csp_err' # NoErr
            /\ ssc'.solar_resource_data = ssc.solar_resource_data) ]_vars

\* the table the engine is to hold for the part of n rows from row first:
\* lists of a year of steps, the part at its offset, zeros elsewhere
C13_Padded(df, first, n) ==
    LET steps_per_hour == 3600 \div df.step
        offset == SecondsSinceNewYear(RowTime(df, first)) \div df.step
        length == HoursPerYear * steps_per_hour
    IN  Concat(Concat(<<Zeros(offset)>>, <<Rows(first, n)>>),
               <<Zeros(length - offset - n)>>)

\* C13: after a set_weather call that passed a part of the weather table
\* to the engine, of one row or of the whole year, solar_resource_data is
\* a table whose lists have 8760 x steps_per_hour elements: the part at
\* the offset of its first row from the new year, zeros elsewhere.
C13_PaddedToFullYear ==
    (/\ last_call.op = "set_weather"
     /\ csp_err = NoErr
     /\ ~GranularityDiffers(last_call.df, ssc.time_steps_per_hour))
    => LET df == last_call.df
           first == FirstRow(df, last_call.start)
           n == PartLen(df, last_call.start, last_call.end)
           data == ssc.solar_resource_data
       IN  /\ data.kind = "table"
           /\ \A k \in ListColumns :
                /\ data.cols[k].islist
                /\ ListLen(data.cols[k].runs) = HoursPerYear * (3600 \div df.step)
                /\ data.cols[k].runs = C13_Padded(df, first, n)

\* C14: a plant constructed from a csp_config without one of the required
\* keys raises ValueError, with no engine made and no weather file read.
C14_MissingKeyRaises ==
    (csp_pc # "NotStarted" /\ required_keys \ csp_config # {})
    => (/\ csp_pc = "raised"
        /\ csp_err.type = "ValueError"
        /\ ~ssc.made
        /\ year_weather_df = NoFile)

====
